---- MODULE Spec2Model ----
(***************************************************************************)
(* TextRenderer of gfx_debug_draw (src/src/text_renderer.rs): the batch    *)
(* of glyph quads, the two GPU buffers it is uploaded to, the shader       *)
(* uniforms, and the vertex stage of the shader.                           *)
(*                                                                         *)
(* f32 values are modelled as exact integers or as fractions <<n, d>>:     *)
(* every number the model feeds in is a small integer, which f32 holds     *)
(* exactly.                                                                *)
(***************************************************************************)
EXTENDS Integers, Sequences, FiniteSets, TLC

VARIABLES
    vertex_data,    \* self.vertex_data: Vec<Vertex>
    index_data,     \* self.index_data: Vec<u32>
    vertex_buffer,  \* self.vertex_buffer: the GPU buffer behind the handle
    index_buffer,   \* self.index_buffer
    params,         \* self.params: u_model_view_proj, u_screen_size
    factory,        \* number of buffers the factory has created so far
    last_call       \* the public operation that ran last, with its arguments

vars == <<vertex_data, index_data, vertex_buffer, index_buffer, params, factory, last_call>>

---------------------------------------------------------------------------
\* Bounds of the model

\* most glyph quads a batch holds before render (guards the draw calls)
MaxQuads == 2
\* longest text of one draw call
MaxTextLen == 2

---------------------------------------------------------------------------
\* Inputs

\* characters of the texts; "?" is not in the font
Chars == {"A", "B", "?"}

\* bitmap_font: atlas size and glyph table ('A' is the glyph of the scenarios)
bitmap_font ==
    [scale_w |-> 256, scale_h |-> 256,
     characters |->
        [c \in {"A", "B"} |->
            IF c = "A"
            THEN [x |-> 0,  y |-> 0, width |-> 10, height |-> 10,
                  xoffset |-> 0, yoffset |-> 0, xadvance |-> 12]
            ELSE [x |-> 10, y |-> 20, width |-> 8, height |-> 9,
                  xoffset |-> 1, yoffset |-> 2, xadvance |-> 9]]]

\* Default::default() of the font's character type
default_character ==
    [x |-> 0, y |-> 0, width |-> 0, height |-> 0,
     xoffset |-> 0, yoffset |-> 0, xadvance |-> 0]

RECURSIVE SeqsUpTo(_, _)
SeqsUpTo(S, n) ==
    IF n = 0 THEN {<<>>}
    ELSE LET shorter == SeqsUpTo(S, n - 1)
         IN  shorter \cup {Append(s, c) : s \in shorter, c \in S}

\* utils::MAT4_ID, as [[f32; 4]; 4] (m[c] is column c of the GLSL mat4)
MAT4_ID == <<<<1, 0, 0, 0>>, <<0, 1, 0, 0>>, <<0, 0, 1, 0>>, <<0, 0, 0, 1>>>>

\* a projection whose clip-space z is world z + 2 and that shifts x by 1
MAT4_CAM == <<<<1, 0, 0, 0>>, <<0, 1, 0, 0>>, <<0, 0, 1, 0>>, <<1, 0, 2, 1>>>>

Projections == {MAT4_ID, MAT4_CAM}
ScreenSizes == {<<640, 480>>, <<800, 600>>}
InitialBufferSizes == {2, 5}
Texts == SeqsUpTo(Chars, MaxTextLen)
WorldPositions == {<<1, 2, 3>>, <<6, 0, 0>>}
\* the (world_position, color) and (screen_position, color) pairs of the calls
WorldAnchors == {<<<<1, 2, 3>>, <<1, 0, 0, 1>>>>, <<<<6, 0, 0>>, <<0, 0, 1, 1>>>>}
ScreenAnchors == {<<<<0, 0>>, <<1, 0, 0, 1>>>>, <<<<10, 10>>, <<0, 1, 0, 1>>>>}

---------------------------------------------------------------------------
\* draw_text

\* lookup that falls back to the glyph 'A' instead of the placeholder
lookup_fallback_glyph(character) ==
    IF character \in DOMAIN bitmap_font.characters
    THEN bitmap_font.characters[character]
    ELSE bitmap_font.characters["A"]

\* self.bitmap_font.characters.get(&character), with the placeholder
lookup(character) ==
    IF character \in DOMAIN bitmap_font.characters
    THEN bitmap_font.characters[character]
    ELSE default_character

\* the four corners pushed clockwise: top-left, top-right, bottom-right,
\* bottom-left
glyph_vertices_clockwise(bc, x, y, world_position, screen_relative, color) ==
    LET x_offset == bc.xoffset + x
        y_offset == bc.yoffset + y
        vertex(px, py, u, v) ==
            [position |-> <<px, py>>,
             color |-> color,
             texcoords |-> <<<<u, bitmap_font.scale_w>>, <<v, bitmap_font.scale_h>>>>,
             world_position |-> world_position,
             screen_relative |-> screen_relative]
    IN  << vertex(x_offset, y_offset, bc.x, bc.y),
           vertex(bc.width + x_offset, y_offset, bc.x + bc.width, bc.y),
           vertex(bc.width + x_offset, bc.height + y_offset,
                  bc.x + bc.width, bc.y + bc.height),
           vertex(x_offset, bc.height + y_offset, bc.x, bc.y + bc.height) >>

\* the four Vertex values pushed for one glyph with the cursor at (x, y)
glyph_vertices(bc, x, y, world_position, screen_relative, color) ==
    LET x_offset == bc.xoffset + x
        y_offset == bc.yoffset + y
        scale_w  == bitmap_font.scale_w
        scale_h  == bitmap_font.scale_h
        vertex(px, py, u, v) ==
            [position |-> <<px, py>>,
             color |-> color,
             texcoords |-> <<<<u, scale_w>>, <<v, scale_h>>>>,
             world_position |-> world_position,
             screen_relative |-> screen_relative]
    IN  << vertex(x_offset, y_offset, bc.x, bc.y),
           vertex(x_offset, bc.height + y_offset, bc.x, bc.y + bc.height),
           vertex(bc.width + x_offset, bc.height + y_offset,
                  bc.x + bc.width, bc.y + bc.height),
           vertex(bc.width + x_offset, y_offset, bc.x + bc.width, bc.y) >>

\* `index` read after the four pushes instead of before them
quad_indices_after_pushes(index) ==
    << index + 4, index + 5, index + 7,
       index + 7, index + 5, index + 6 >>

\* the two triangles split along the other diagonal
quad_indices_other_diagonal(index) ==
    << index + 0, index + 1, index + 2,
       index + 2, index + 3, index + 0 >>

\* the six indices pushed for the quad whose first vertex is at `index`
\* (`as u32` leaves every index below 2^32 as it is)
quad_indices(index) ==
    << index + 0, index + 1, index + 3,
       index + 3, index + 1, index + 2 >>

\* the loop with `continue` for a character missing from the font
RECURSIVE draw_text_loop_skip_missing(_, _, _, _, _, _, _, _)
draw_text_loop_skip_missing(text, x, y, world_position, screen_relative, color, vd, id) ==
    IF text = <<>>
    THEN [vertex_data |-> vd, index_data |-> id]
    ELSE IF Head(text) \notin DOMAIN bitmap_font.characters
    THEN draw_text_loop_skip_missing(Tail(text), x, y, world_position,
                                     screen_relative, color, vd, id)
    ELSE LET bc    == bitmap_font.characters[Head(text)]
             index == Len(vd)
         IN  draw_text_loop_skip_missing(
                Tail(text), x + bc.xadvance, y,
                world_position, screen_relative, color,
                vd \o glyph_vertices(bc, x, y, world_position,
                                     screen_relative, color),
                id \o quad_indices(index))

\* the for loop of draw_text over text.chars(): the batch after it
RECURSIVE draw_text_loop(_, _, _, _, _, _, _, _)
draw_text_loop(text, x, y, world_position, screen_relative, color, vd, id) ==
    IF text = <<>>
    THEN [vertex_data |-> vd, index_data |-> id]
    ELSE LET bc    == lookup(Head(text))
             index == Len(vd)
         IN  draw_text_loop(Tail(text), x + bc.xadvance, y,
                            world_position, screen_relative, color,
                            vd \o glyph_vertices(bc, x, y, world_position,
                                                 screen_relative, color),
                            id \o quad_indices(index))

draw_text(text, screen_position, world_position, screen_relative, color) ==
    LET batch == draw_text_loop(text, screen_position[1], screen_position[2],
                                world_position, screen_relative, color,
                                vertex_data, index_data)
    IN  /\ vertex_data' = batch.vertex_data
        /\ index_data' = batch.index_data
        /\ UNCHANGED <<vertex_buffer, index_buffer, params, factory>>

\* the batch is kept within MaxQuads quads
FitsBatch(text) == Len(vertex_data) + 4 * Len(text) <= 4 * MaxQuads

\* draw_text_at_position that passes screen_relative = 1
draw_text_at_position_screen_relative(text, world_position, color) ==
    /\ FitsBatch(text)
    /\ draw_text(text, <<0, 0>>, world_position, 1, color)
    /\ last_call' = [op |-> "draw_text_at_position", text |-> text,
                     world_position |-> world_position, color |-> color]

draw_text_at_position(text, world_position, color) ==
    /\ FitsBatch(text)
    /\ draw_text(text, <<0, 0>>, world_position, 0, color)
    /\ last_call' = [op |-> "draw_text_at_position", text |-> text,
                     world_position |-> world_position, color |-> color]

\* draw_text_on_screen that passes screen_relative = 0
draw_text_on_screen_world_anchored(text, screen_position, color) ==
    /\ FitsBatch(text)
    /\ draw_text(text, screen_position, <<0, 0, 0>>, 0, color)
    /\ last_call' = [op |-> "draw_text_on_screen", text |-> text,
                     screen_position |-> screen_position, color |-> color]

draw_text_on_screen(text, screen_position, color) ==
    /\ FitsBatch(text)
    /\ draw_text(text, screen_position, <<0, 0, 0>>, 1, color)
    /\ last_call' = [op |-> "draw_text_on_screen", text |-> text,
                     screen_position |-> screen_position, color |-> color]

---------------------------------------------------------------------------
\* resize

\* resize that rebuilds the whole uniform block
resize_rebuilds_params(width, height) ==
    /\ params' = [u_model_view_proj |-> MAT4_ID, u_screen_size |-> <<width, height>>]
    /\ last_call' = [op |-> "resize", width |-> width, height |-> height]
    /\ UNCHANGED <<vertex_data, index_data, vertex_buffer, index_buffer, factory>>

resize(width, height) ==
    /\ params' = [params EXCEPT !.u_screen_size = <<width, height>>]
    /\ last_call' = [op |-> "resize", width |-> width, height |-> height]
    /\ UNCHANGED <<vertex_data, index_data, vertex_buffer, index_buffer, factory>>

---------------------------------------------------------------------------
\* GPU buffers

\* A buffer entry is <<value>> once written and Uninit before
Uninit == <<>>

\* factory.create_buffer(size, BufferUsage::Dynamic)
create_buffer(handle, size) ==
    [handle |-> handle, len |-> size, data |-> [i \in 1..size |-> Uninit]]

\* the sizes grow_buffer may give the new buffer: exact fit or doubled
GrowthSizes(required_size) == {required_size, 2 * required_size}

\* grow_buffer that allocates the new buffer and copies nothing
grow_buffer_without_copy(buffer, new_handle, new_size) ==
    [handle |-> new_handle, len |-> new_size,
     data |-> [i \in 1..new_size |-> Uninit]]

\* utils::grow_buffer: a new buffer of new_size >= required_size entries that
\* holds the old buffer's contents at their offsets
grow_buffer(buffer, new_handle, new_size) ==
    [handle |-> new_handle, len |-> new_size,
     data |-> [i \in 1..new_size |->
                 IF i <= buffer.len THEN buffer.data[i] ELSE Uninit]]

\* factory.update_buffer(buffer, data, offset_elements); a write that does not
\* fit the buffer is rejected by the device and leaves it as it was
update_buffer(buffer, data, offset) ==
    IF offset + Len(data) <= buffer.len
    THEN [buffer EXCEPT !.data =
            [i \in 1..buffer.len |->
                IF i > offset /\ i <= offset + Len(data)
                THEN <<data[i - offset]>> ELSE buffer.data[i]]]
    ELSE buffer

---------------------------------------------------------------------------
\* update

\* the element count compared with the buffer's size in bytes (4 per entry)
needs_growth_in_bytes(data_len, buffer) == data_len > buffer.len * 4

\* a new buffer on every update, whatever the buffer's size
needs_growth_always(data_len, buffer) == data_len >= 0

\* growth also when the data exactly fills the buffer
needs_growth_or_equal(data_len, buffer) == data_len >= buffer.len

\* self.vertex_data.len() > self.vertex_buffer.len()
needs_growth(data_len, buffer) == data_len > buffer.len

\* last_call of an update that did not call grow_buffer for a buffer: no
\* buffer (the factory's handles start at 1)
NoGrowth == [handle |-> 0, len |-> 0, data |-> <<>>]

\* the upload of a pending list into its buffer, from offset 0
upload(buffer, data) == update_buffer(buffer, data, 0)

update ==
    \E vertex_size \in GrowthSizes(Len(vertex_data)),
       index_size \in GrowthSizes(Len(index_data)) :
        LET grow_v   == needs_growth(Len(vertex_data), vertex_buffer)
            created  == IF grow_v THEN factory + 1 ELSE factory
            grown_v  == IF grow_v
                        THEN grow_buffer(vertex_buffer, created, vertex_size)
                        ELSE vertex_buffer
            grow_i   == needs_growth(Len(index_data), index_buffer)
            created2 == IF grow_i THEN created + 1 ELSE created
            grown_i  == IF grow_i
                        THEN grow_buffer(index_buffer, created2, index_size)
                        ELSE index_buffer
        IN  /\ vertex_buffer' = upload(grown_v, vertex_data)
            /\ index_buffer' = upload(grown_i, index_data)
            /\ factory' = created2
            /\ last_call' = [op |-> "update",
                             vertex_grown |-> IF grow_v THEN grown_v ELSE NoGrowth,
                             index_grown |-> IF grow_i THEN grown_i ELSE NoGrowth]
            /\ UNCHANGED <<vertex_data, index_data, params>>

---------------------------------------------------------------------------
\* render

\* graphics.renderer.draw(&bind(state, mesh, slice, program, params), frame):
\* the draw call as the device receives it, under the uniforms `uniforms`
draw_call(uniforms) ==
    [prim_type |-> "TriangleList",
     start |-> 0,
     end |-> Len(index_data),
     num_vertices |-> Len(vertex_data),
     vertex_buffer |-> vertex_buffer.handle,
     index_buffer |-> index_buffer.handle,
     u_model_view_proj |-> uniforms.u_model_view_proj,
     u_screen_size |-> uniforms.u_screen_size]

\* render without self.index_data.clear()
render_keeps_indices(projection) ==
    LET assigned == [params EXCEPT !.u_model_view_proj = projection]
    IN  /\ params' = assigned
        /\ last_call' = [op |-> "render", projection |-> projection,
                         draw_calls |-> <<draw_call(assigned)>>]
        /\ vertex_data' = <<>>
        /\ UNCHANGED <<index_data, vertex_buffer, index_buffer, factory>>

\* render that binds the uniforms before it assigns the projection
render_draws_with_old_projection(projection) ==
    /\ params' = [params EXCEPT !.u_model_view_proj = projection]
    /\ last_call' = [op |-> "render", projection |-> projection,
                     draw_calls |-> <<draw_call(params)>>]
    /\ vertex_data' = <<>>
    /\ index_data' = <<>>
    /\ UNCHANGED <<vertex_buffer, index_buffer, factory>>

\* render without self.vertex_data.clear()
render_keeps_vertices(projection) ==
    LET assigned == [params EXCEPT !.u_model_view_proj = projection]
    IN  /\ params' = assigned
        /\ last_call' = [op |-> "render", projection |-> projection,
                         draw_calls |-> <<draw_call(assigned)>>]
        /\ index_data' = <<>>
        /\ UNCHANGED <<vertex_data, vertex_buffer, index_buffer, factory>>

\* render as it was before the split into update() and render(): it uploads
\* the pending lists itself before it draws
render_uploads_batch(projection) ==
    LET assigned == [params EXCEPT !.u_model_view_proj = projection]
    IN  /\ params' = assigned
        /\ vertex_buffer' = upload(vertex_buffer, vertex_data)
        /\ index_buffer' = upload(index_buffer, index_data)
        /\ last_call' = [op |-> "render", projection |-> projection,
                         draw_calls |-> <<draw_call(assigned)>>]
        /\ vertex_data' = <<>>
        /\ index_data' = <<>>
        /\ UNCHANGED factory

render(projection) ==
    LET assigned == [params EXCEPT !.u_model_view_proj = projection]
    IN  /\ params' = assigned
        /\ last_call' = [op |-> "render", projection |-> projection,
                         draw_calls |-> <<draw_call(assigned)>>]
        /\ vertex_data' = <<>>
        /\ index_data' = <<>>
        /\ UNCHANGED <<vertex_buffer, index_buffer, factory>>

---------------------------------------------------------------------------
\* The vertex stage of the shader (VERTEX_SRC), in exact fractions <<n, d>>

Abs(n) == IF n < 0 THEN -n ELSE n

RECURSIVE Gcd(_, _)
Gcd(a, b) == IF b = 0 THEN a ELSE Gcd(b, a % b)

\* n / d in lowest terms with a positive denominator (d # 0)
Frac(n, d) ==
    LET g == Gcd(Abs(n), Abs(d))
        s == IF d < 0 THEN -1 ELSE 1
    IN  <<(s * n) \div g, (s * d) \div g>>

FracAdd(p, q) == Frac(p[1] * q[2] + q[1] * p[2], p[2] * q[2])
FracSub(p, q) == Frac(p[1] * q[2] - q[1] * p[2], p[2] * q[2])
FracInt(n) == <<n, 1>>

\* the value of an expression that divides by zero
Undefined == <<>>

\* u_model_view_proj * world_position, the attribute's w being 1
mat4_mul_vec4(m, v) ==
    [r \in 1..4 |-> m[1][r] * v[1] + m[2][r] * v[2] + m[3][r] * v[3] + m[4][r] * v[4]]

\* on-screen offset from text origin
screen_offset(position, u_screen_size) ==
    << FracSub(Frac(2 * position[1], u_screen_size[1]), FracInt(1)),
       FracSub(FracInt(1), Frac(2 * position[2], u_screen_size[2])) >>

\* the conventional perspective divide, by w
perspective_divide_by_w(screen_position) ==
    IF screen_position[4] = 0
    THEN Undefined
    ELSE << FracAdd(Frac(screen_position[1], screen_position[4]), FracInt(1)),
            FracSub(Frac(screen_position[2], screen_position[4]), FracInt(1)) >>

\* perspective divide to get normalized device coords
perspective_divide(screen_position) ==
    IF screen_position[3] = 0
    THEN Undefined
    ELSE << FracAdd(Frac(screen_position[1], screen_position[3]), FracInt(1)),
            FracSub(Frac(screen_position[2], screen_position[3]), FracInt(1)) >>

\* on-screen offset accounting for world_position
world_offset(vertex, u_model_view_proj) ==
    LET screen_position ==
            mat4_mul_vec4(u_model_view_proj,
                          <<vertex.world_position[1], vertex.world_position[2],
                            vertex.world_position[3], 1>>)
    IN  IF vertex.screen_relative = 0
        THEN perspective_divide(screen_position)
        ELSE <<FracInt(0), FracInt(0)>>

\* main(): gl_Position of a vertex under the uniforms
gl_Position(vertex, u_model_view_proj, u_screen_size) ==
    LET so == screen_offset(vertex.position, u_screen_size)
        wo == world_offset(vertex, u_model_view_proj)
    IN  IF wo = Undefined
        THEN Undefined
        ELSE <<FracAdd(wo[1], so[1]), FracAdd(wo[2], so[2]), FracInt(0), FracInt(1)>>

---------------------------------------------------------------------------
\* new

new(frame_size, initial_buffer_size) ==
    /\ vertex_data = <<>>
    /\ index_data = <<>>
    /\ vertex_buffer = create_buffer(1, initial_buffer_size)
    /\ index_buffer = create_buffer(2, initial_buffer_size)
    /\ factory = 2
    /\ params = [u_model_view_proj |-> MAT4_ID, u_screen_size |-> frame_size]
    /\ last_call = [op |-> "new", frame_size |-> frame_size,
                    initial_buffer_size |-> initial_buffer_size]

Init ==
    \E frame_size \in ScreenSizes, initial_buffer_size \in InitialBufferSizes :
        new(frame_size, initial_buffer_size)

\* The frame cycle (Spec) draws one text with one colour and one anchor of
\* each kind, so that the buffers' contents stay enumerable; the
\* batch builder alone (SpecDraw) draws with every input.
FrameTexts == {<<"A">>}
FrameWorldPosition == <<1, 2, 3>>
FrameScreenPosition == <<10, 10>>
FrameColor == <<1, 0, 0, 1>>

DrawTextAtPosition ==
    \E text \in FrameTexts :
        draw_text_at_position(text, FrameWorldPosition, FrameColor)

DrawTextOnScreen ==
    \E text \in FrameTexts :
        draw_text_on_screen(text, FrameScreenPosition, FrameColor)

Resize == \E size \in ScreenSizes : resize(size[1], size[2])

Update == update

Render == \E projection \in Projections : render(projection)

Next == DrawTextAtPosition \/ DrawTextOnScreen \/ Resize \/ Update \/ Render

Spec == Init /\ [][Next]_vars

\* The batch builder with every input: draw calls, resize and render.
DrawTextAtPositionAny ==
    \E text \in Texts, anchor \in WorldAnchors :
        draw_text_at_position(text, anchor[1], anchor[2])

DrawTextOnScreenAny ==
    \E text \in Texts, anchor \in ScreenAnchors :
        draw_text_on_screen(text, anchor[1], anchor[2])

NextDraw == DrawTextAtPositionAny \/ DrawTextOnScreenAny \/ Resize \/ Render

\* the buffers play no part here: one initial buffer size
InitDraw == \E frame_size \in ScreenSizes : new(frame_size, 2)

SpecDraw == InitDraw /\ [][NextDraw]_vars

---------------------------------------------------------------------------
\* Construction and the calls that unwrap a result

\* the state before TextRenderer::new has returned a renderer
NoRenderer ==
    /\ vertex_data = <<>>
    /\ index_data = <<>>
    /\ vertex_buffer = NoGrowth
    /\ index_buffer = NoGrowth
    /\ factory = 0
    /\ params = [u_model_view_proj |-> MAT4_ID, u_screen_size |-> <<0, 0>>]

\* what ShaderSource::choose(shader_model) returns for the two variants
\* (glsl_120, glsl_150) under the device's shader model
ChooseResults == {"glsl_150", "glsl_120", "Err"}

\* what a call that returns a Result returns
Results == {"Ok", "Err"}

\* TextRenderer::new as a call: choose(..).unwrap() for both stages, then
\* link_program, then the buffers and the renderer
new_call(chosen, link_result, frame_size, initial_buffer_size) ==
    IF chosen = "Err"
    THEN /\ last_call' = [op |-> "panic", in |-> "new"]
         /\ UNCHANGED <<vertex_data, index_data, vertex_buffer, index_buffer,
                        params, factory>>
    ELSE IF link_result = "Err"
    THEN /\ last_call' = [op |-> "new", result |-> "Err"]
         /\ UNCHANGED <<vertex_data, index_data, vertex_buffer, index_buffer,
                        params, factory>>
    ELSE /\ vertex_data' = <<>>
         /\ index_data' = <<>>
         /\ vertex_buffer' = create_buffer(1, initial_buffer_size)
         /\ index_buffer' = create_buffer(2, initial_buffer_size)
         /\ factory' = 2
         /\ params' = [u_model_view_proj |-> MAT4_ID, u_screen_size |-> frame_size]
         /\ last_call' = [op |-> "new", result |-> "Ok", frame_size |-> frame_size,
                          initial_buffer_size |-> initial_buffer_size]

\* render when graphics.renderer.draw returns Err: unwrap() panics after the
\* projection was assigned and before the batch is cleared
render_draw_err(projection) ==
    /\ params' = [params EXCEPT !.u_model_view_proj = projection]
    /\ last_call' = [op |-> "panic", in |-> "render"]
    /\ UNCHANGED <<vertex_data, index_data, vertex_buffer, index_buffer, factory>>

\* a renderer exists and no call has panicked
Ready ==
    /\ last_call.op \notin {"none", "panic"}
    /\ last_call.op = "new" => last_call.result = "Ok"

InitNew == NoRenderer /\ last_call = [op |-> "none"]

New ==
    /\ last_call.op = "none"
    /\ \E chosen \in ChooseResults, link_result \in Results,
          frame_size \in ScreenSizes, initial_buffer_size \in InitialBufferSizes :
            new_call(chosen, link_result, frame_size, initial_buffer_size)

RenderDrawErr == \E projection \in Projections : render_draw_err(projection)

NextNew ==
    \/ New
    \/ Ready /\ (DrawTextAtPosition \/ DrawTextOnScreen \/ Resize \/ Update \/ Render)
    \/ Ready /\ RenderDrawErr

\* Construction, then the frame cycle with a draw call that may fail
SpecNew == InitNew /\ [][NextNew]_vars

---------------------------------------------------------------------------
\* The frame protocol: draw calls, then update(), then render()

\* between frames: nothing is pending
FrameStart == last_call.op \in {"new", "render", "resize"}

\* the frame's batch is being built
Building ==
    FrameStart \/ last_call.op \in {"draw_text_at_position", "draw_text_on_screen"}

NextFrame ==
    \/ Building /\ DrawTextAtPosition
    \/ Building /\ DrawTextOnScreen
    \/ FrameStart /\ Resize
    \/ Building /\ Update
    \/ last_call.op = "update" /\ Render

\* every frame is: resize events, draw calls, update(), render(projection)
SpecFrame == Init /\ [][NextFrame]_vars

---------------------------------------------------------------------------
\* Properties

IsDraw(op) == op \in {"draw_text_at_position", "draw_text_on_screen"}

\* the places in vertex_data of the vertices the last draw call appended
LastDrawn == (Len(vertex_data) - 4 * Len(last_call.text) + 1)..Len(vertex_data)

\* the cursor origin of the last draw call
LastOrigin ==
    IF last_call.op = "draw_text_on_screen" THEN last_call.screen_position ELSE <<0, 0>>

\* C1: a draw call of a text of n characters appends exactly 4n vertices and
\* 6n indices to the batch and leaves what the batch held before as it was.
C1_DrawAppends4nAnd6n ==
    [][IsDraw(last_call'.op) =>
        LET n == Len(last_call'.text)
        IN  /\ Len(vertex_data') = Len(vertex_data) + 4 * n
            /\ Len(index_data') = Len(index_data) + 6 * n
            /\ SubSeq(vertex_data', 1, Len(vertex_data)) = vertex_data
            /\ SubSeq(index_data', 1, Len(index_data)) = index_data]_vars

\* a call whose text has a character missing from the font has added to a
\* batch that already held a quad
C1_Witness ==
    /\ IsDraw(last_call.op)
    /\ Len(last_call.text) = 1
    /\ last_call.text[1] = "?"
    /\ Len(vertex_data) = 8
    /\ Len(index_data) = 12

\* C2: after render both lists of the batch are empty.
C2_RenderEmptiesBatch ==
    last_call.op = "render" => vertex_data = <<>> /\ index_data = <<>>

\* a batch of two quads was rendered while the vertex buffer was never written
C2_Witness ==
    /\ last_call.op = "render"
    /\ last_call.draw_calls[1].num_vertices = 8
    /\ last_call.draw_calls[1].end = 12
    /\ \A i \in 1..vertex_buffer.len : vertex_buffer.data[i] = Uninit
    /\ vertex_data = <<>>
    /\ index_data = <<>>

\* C3: the k-th quad of the batch (k from 0) has the indices
\* 4k+0, 4k+1, 4k+3, 4k+3, 4k+1, 4k+2, in that order.
C3_QuadIndices ==
    /\ Len(index_data) % 6 = 0
    /\ 4 * (Len(index_data) \div 6) = Len(vertex_data)
    /\ \A k \in 0..(Len(index_data) \div 6 - 1) :
          SubSeq(index_data, 6 * k + 1, 6 * k + 6)
            = <<4 * k + 0, 4 * k + 1, 4 * k + 3, 4 * k + 3, 4 * k + 1, 4 * k + 2>>

\* the second of two one-character calls has given the second quad [4,5,7,7,5,6]
C3_Witness ==
    /\ IsDraw(last_call.op)
    /\ Len(last_call.text) = 1
    /\ index_data = <<0, 1, 3, 3, 1, 2, 4, 5, 7, 7, 5, 6>>

\* the cursor before character i of a text: the advances of the characters
\* before it that the font has
RECURSIVE ExpectedAdvance(_, _)
ExpectedAdvance(text, i) ==
    IF i <= 1 THEN 0
    ELSE ExpectedAdvance(text, i - 1)
         + (IF text[i - 1] \in DOMAIN bitmap_font.characters
            THEN bitmap_font.characters[text[i - 1]].xadvance
            ELSE 0)

\* C4: a character missing from the font still appends a quad; its four
\* corners coincide at the cursor, its texture rectangle is empty at the
\* atlas origin, and it does not advance the cursor of the characters after it.
C4_MissingGlyphPlaceholder ==
    IsDraw(last_call.op) =>
        LET text == last_call.text
            base == Len(vertex_data) - 4 * Len(text)
        IN  /\ base >= 0
            /\ \A i \in 1..Len(text) :
                LET cx == LastOrigin[1] + ExpectedAdvance(text, i)
                    corner(k) == vertex_data[base + 4 * (i - 1) + k]
                IN  IF text[i] \in DOMAIN bitmap_font.characters
                    THEN corner(1).position
                            = << cx + bitmap_font.characters[text[i]].xoffset,
                                 LastOrigin[2] + bitmap_font.characters[text[i]].yoffset >>
                    ELSE \A k \in 1..4 :
                            /\ corner(k).position = <<cx, LastOrigin[2]>>
                            /\ corner(k).texcoords
                                 = <<<<0, bitmap_font.scale_w>>, <<0, bitmap_font.scale_h>>>>

\* a text with a missing character between two glyphs was drawn on screen
C4_Witness ==
    /\ last_call.op = "draw_text_on_screen"
    /\ last_call.text = <<"A", "?">>
    /\ last_call.screen_position = <<10, 10>>
    /\ vertex_data[Len(vertex_data)].position = <<22, 10>>

\* C5: after update each buffer is at least as long as its pending list and
\* holds the list, entry by entry, from offset 0.
C5_UpdateUploadsBatch ==
    last_call.op = "update" =>
        /\ vertex_buffer.len >= Len(vertex_data)
        /\ index_buffer.len >= Len(index_data)
        /\ \A i \in 1..Len(vertex_data) : vertex_buffer.data[i] = <<vertex_data[i]>>
        /\ \A i \in 1..Len(index_data) : index_buffer.data[i] = <<index_data[i]>>

\* an update of a batch longer than both buffers were
C5_Witness ==
    /\ last_call.op = "update"
    /\ last_call.vertex_grown # NoGrowth
    /\ last_call.index_grown # NoGrowth
    /\ Len(vertex_data) = 8

\* C6: no step shortens a buffer; only update replaces one, and it replaces a
\* buffer exactly when that buffer's pending list is longer than the buffer.
C6_CapacityGrowsLazily ==
    [][/\ vertex_buffer'.len >= vertex_buffer.len
       /\ index_buffer'.len >= index_buffer.len
       /\ IF last_call'.op = "update"
          THEN /\ IF Len(vertex_data) <= vertex_buffer.len
                  THEN /\ vertex_buffer'.handle = vertex_buffer.handle
                       /\ vertex_buffer'.len = vertex_buffer.len
                  ELSE /\ vertex_buffer'.handle # vertex_buffer.handle
                       /\ vertex_buffer'.len >= Len(vertex_data)
               /\ IF Len(index_data) <= index_buffer.len
                  THEN /\ index_buffer'.handle = index_buffer.handle
                       /\ index_buffer'.len = index_buffer.len
                  ELSE /\ index_buffer'.handle # index_buffer.handle
                       /\ index_buffer'.len >= Len(index_data)
          ELSE /\ vertex_buffer' = vertex_buffer
               /\ index_buffer' = index_buffer]_vars

\* an update that replaced the vertex buffer and kept the index buffer, whose
\* pending list exactly fills it
C6_Witness ==
    /\ last_call.op = "update"
    /\ last_call.vertex_grown # NoGrowth
    /\ last_call.index_grown = NoGrowth
    /\ Len(index_data) = index_buffer.len

\* C7: the buffer grow_buffer returns holds every entry of the buffer it
\* replaces at the same offset.
C7_GrowthKeepsContents ==
    [][last_call'.op = "update" =>
        /\ last_call'.vertex_grown # NoGrowth =>
              \A i \in 1..vertex_buffer.len :
                  last_call'.vertex_grown.data[i] = vertex_buffer.data[i]
        /\ last_call'.index_grown # NoGrowth =>
              \A i \in 1..index_buffer.len :
                  last_call'.index_grown.data[i] = index_buffer.data[i]]_vars

\* a vertex buffer that held an uploaded quad was grown and the grown buffer
\* starts with that quad
C7_Witness ==
    /\ last_call.op = "update"
    /\ last_call.vertex_grown # NoGrowth
    /\ \A i \in 1..4 : last_call.vertex_grown.data[i] # Uninit

\* C8: resize sets the screen-size uniform and changes nothing else.
C8_ResizeOnlyScreenSize ==
    [][last_call'.op = "resize" =>
        /\ params'.u_screen_size = <<last_call'.width, last_call'.height>>
        /\ params'.u_model_view_proj = params.u_model_view_proj
        /\ UNCHANGED <<vertex_data, index_data, vertex_buffer, index_buffer>>]_vars

\* a resize with a pending batch, uploaded buffers and a projection set by render
C8_Witness ==
    /\ last_call.op = "resize"
    /\ Len(vertex_data) > 0
    /\ vertex_buffer.len > 0
    /\ vertex_buffer.data[1] # Uninit
    /\ params.u_model_view_proj # MAT4_ID
    /\ params.u_screen_size = <<800, 600>>

\* C9: the device position of a vertex of draw_text_on_screen is the same
\* under every projection and every world position: it is the screen offset
\* (2x/width - 1, 1 - 2y/height) of its pixel position under the screen size.
C9_OnScreenIgnoresProjection ==
    last_call.op = "draw_text_on_screen" =>
        \A i \in LastDrawn, size \in ScreenSizes :
            LET v      == vertex_data[i]
                offset == << Frac(2 * v.position[1] - size[1], size[1]),
                             Frac(size[2] - 2 * v.position[2], size[2]),
                             FracInt(0), FracInt(1) >>
            IN  \A p \in Projections, w \in WorldPositions \cup {<<0, 0, 0>>} :
                    gl_Position([v EXCEPT !.world_position = w], p, size) = offset

\* text was drawn on screen after a render had set another projection
C9_Witness ==
    /\ last_call.op = "draw_text_on_screen"
    /\ Len(last_call.text) = 2
    /\ params.u_model_view_proj = MAT4_CAM
    /\ gl_Position(vertex_data[Len(vertex_data)], params.u_model_view_proj,
                   params.u_screen_size) # Undefined

\* C10 as stated: the device position of a vertex of draw_text_at_position is
\* the same under any two screen sizes.
C10_AtPositionIgnoresScreenSize ==
    last_call.op = "draw_text_at_position" =>
        \A i \in LastDrawn :
            \A s1 \in ScreenSizes, s2 \in ScreenSizes :
                gl_Position(vertex_data[i], params.u_model_view_proj, s1)
                    = gl_Position(vertex_data[i], params.u_model_view_proj, s2)

\* C10 amended: the device position of a vertex of draw_text_at_position is
\* the projected anchor (clip.x/clip.z, clip.y/clip.z) of the call's world
\* position plus the vertex's pixel position scaled by 2/screen_size (y
\* downward); a component is the same under two screen sizes when the pixel
\* coordinate of that component is 0.
C10_AtPositionAnchorPlusPixelOffset ==
    last_call.op = "draw_text_at_position" =>
        \A i \in LastDrawn, p \in Projections :
            LET v    == vertex_data[i]
                wp   == last_call.world_position
                clip == mat4_mul_vec4(p, <<wp[1], wp[2], wp[3], 1>>)
                g(s) == gl_Position(v, p, s)
            IN  IF clip[3] = 0
                THEN \A s \in ScreenSizes : g(s) = Undefined
                ELSE /\ \A s \in ScreenSizes :
                            g(s) = << FracAdd(Frac(clip[1], clip[3]),
                                              Frac(2 * v.position[1], s[1])),
                                      FracSub(Frac(clip[2], clip[3]),
                                              Frac(2 * v.position[2], s[2])),
                                      FracInt(0), FracInt(1) >>
                     /\ v.position[1] = 0 =>
                            \A s1 \in ScreenSizes, s2 \in ScreenSizes : g(s1)[1] = g(s2)[1]
                     /\ v.position[2] = 0 =>
                            \A s1 \in ScreenSizes, s2 \in ScreenSizes : g(s1)[2] = g(s2)[2]

\* a glyph of nonzero size was drawn at a world position whose projection is
\* defined: its top-left corner keeps its place under both screen sizes and
\* its bottom-right corner does not
C10_Witness ==
    /\ last_call.op = "draw_text_at_position"
    /\ last_call.text = <<"A">>
    /\ last_call.world_position = <<1, 2, 3>>
    /\ LET tl == vertex_data[Len(vertex_data) - 3]
           br == vertex_data[Len(vertex_data) - 1]
           p  == params.u_model_view_proj
       IN  /\ gl_Position(tl, p, <<640, 480>>) = gl_Position(tl, p, <<800, 600>>)
           /\ gl_Position(br, p, <<640, 480>>) # gl_Position(br, p, <<800, 600>>)
           /\ gl_Position(br, p, <<640, 480>>) # Undefined

\* C11: construction either returns the program error with no renderer or
\* returns a renderer with an empty batch, buffers of the requested length
\* and the frame size as screen size; no call panics.
C11_OnlyConstructionFails ==
    /\ last_call.op # "panic"
    /\ last_call.op = "new" =>
          IF last_call.result = "Err"
          THEN NoRenderer
          ELSE /\ vertex_data = <<>>
               /\ index_data = <<>>
               /\ vertex_buffer.len = last_call.initial_buffer_size
               /\ index_buffer.len = last_call.initial_buffer_size
               /\ params.u_screen_size = last_call.frame_size

\* C12: render assigns the projection uniform and then issues exactly one
\* draw call: a triangle list over the indices [0, n), n being the length of
\* the index list before render clears it, under the assigned projection.
C12_RenderIssuesOneDrawCall ==
    [][last_call'.op = "render" =>
        /\ params'.u_model_view_proj = last_call'.projection
        /\ Len(last_call'.draw_calls) = 1
        /\ LET call == last_call'.draw_calls[1]
           IN  /\ call.prim_type = "TriangleList"
               /\ call.start = 0
               /\ call.end = Len(index_data)
               /\ call.u_model_view_proj = last_call'.projection]_vars

\* a render of the empty batch, over [0, 0), that changed the projection
\* after an earlier frame had been uploaded
C12_Witness ==
    /\ last_call.op = "render"
    /\ last_call.draw_calls[1].end = 0
    /\ last_call.projection = MAT4_CAM
    /\ vertex_buffer.data[1] # Uninit

\* C13: the four vertices of character i of a draw call are its top-left,
\* bottom-left, bottom-right and top-right corners, in that order; the
\* top-left is at (x + xoffset, y + yoffset), the glyph is width wide to the
\* right and height high downward, x is the call's screen x (0 for
\* draw_text_at_position) plus the xadvance of the characters before i, and
\* y is the call's screen y for every character.
C13_QuadCorners ==
    IsDraw(last_call.op) =>
        LET text == last_call.text
            base == Len(vertex_data) - 4 * Len(text)
        IN  \A i \in 1..Len(text) :
                LET bc   == lookup(text[i])
                    left == LastOrigin[1] + ExpectedAdvance(text, i) + bc.xoffset
                    top  == LastOrigin[2] + bc.yoffset
                    corner(k) == vertex_data[base + 4 * (i - 1) + k].position
                IN  /\ corner(1) = <<left, top>>
                    /\ corner(2) = <<left, top + bc.height>>
                    /\ corner(3) = <<left + bc.width, top + bc.height>>
                    /\ corner(4) = <<left + bc.width, top>>

\* "BA" was drawn on screen at (10, 10): the top-right corner of 'A' is one
\* advance of 'B' to the right, on the call's line
C13_Witness ==
    /\ last_call.op = "draw_text_on_screen"
    /\ last_call.text = <<"B", "A">>
    /\ last_call.screen_position = <<10, 10>>
    /\ vertex_data[Len(vertex_data)].position = <<29, 10>>
    /\ vertex_data[Len(vertex_data) - 4].position = <<19, 12>>

\* C14: every vertex a draw call appends has the call's color; those of
\* draw_text_at_position have its world_position and screen_relative = 0,
\* those of draw_text_on_screen have world_position [0,0,0] and
\* screen_relative = 1; the vertices appended before keep their values.
C14_VerticesCarryCallData ==
    [][IsDraw(last_call'.op) =>
        /\ \A i \in 1..Len(vertex_data) : vertex_data'[i] = vertex_data[i]
        /\ \A i \in (Len(vertex_data) + 1)..Len(vertex_data') :
              /\ vertex_data'[i].color = last_call'.color
              /\ IF last_call'.op = "draw_text_at_position"
                 THEN /\ vertex_data'[i].world_position = last_call'.world_position
                      /\ vertex_data'[i].screen_relative = 0
                 ELSE /\ vertex_data'[i].world_position = <<0, 0, 0>>
                      /\ vertex_data'[i].screen_relative = 1]_vars

\* a world-anchored call in blue after a screen-anchored call in green
C14_Witness ==
    /\ last_call.op = "draw_text_at_position"
    /\ last_call.color = <<0, 0, 1, 1>>
    /\ last_call.world_position = <<6, 0, 0>>
    /\ Len(last_call.text) = 1
    /\ Len(vertex_data) = 8
    /\ vertex_data[1].screen_relative = 1
    /\ vertex_data[1].color = <<0, 1, 0, 1>>
    /\ vertex_data[8].screen_relative = 0
    /\ vertex_data[8].color = <<0, 0, 1, 1>>

\* C15 as stated, for the draw call that directly follows update(): the
\* vertices and indices it appends are in no entry of the GPU buffers at their
\* batch positions (the buffers stay as they are until render has drawn)
C15_LateGeometryAbsentFromBuffers ==
    [][(last_call.op = "update" /\ IsDraw(last_call'.op)) =>
        /\ \A i \in (Len(vertex_data) + 1)..Len(vertex_data') :
              i <= vertex_buffer.len => vertex_buffer.data[i] # <<vertex_data'[i]>>
        /\ \A i \in (Len(index_data) + 1)..Len(index_data') :
              i <= index_buffer.len => index_buffer.data[i] # <<index_data'[i]>>]_vars

\* C15: geometry appended after update() is not uploaded: a draw call leaves
\* the GPU buffers as the last update left them, render draws with them
\* unchanged and empties the batch, so that the upload of the next update
\* holds none of it
C15_LateGeometryNotUploaded ==
    [][/\ IsDraw(last_call'.op) =>
            /\ vertex_buffer' = vertex_buffer
            /\ index_buffer' = index_buffer
       /\ last_call'.op = "render" =>
            /\ vertex_buffer' = vertex_buffer
            /\ index_buffer' = index_buffer
            /\ vertex_data' = <<>>
            /\ index_data' = <<>>
            /\ last_call'.draw_calls[1].num_vertices = Len(vertex_data)
            /\ last_call'.draw_calls[1].end = Len(index_data)]_vars

\* render has drawn two quads with a vertex buffer of five entries that holds
\* the first quad only: the second was appended after update()
C15_Witness ==
    /\ last_call.op = "render"
    /\ last_call.draw_calls[1].num_vertices = 8
    /\ vertex_buffer.len = 5
    /\ vertex_buffer.data[4] # Uninit
    /\ vertex_buffer.data[5] = Uninit
    /\ vertex_data = <<>>

\* C16: under the frame protocol, render's draw call covers the frame's whole
\* batch, which the buffers hold from entry 0 as uploaded, and leaves the
\* batch empty; the first draw call after it starts again at vertex 0, its
\* first quad having the indices [0,1,3,3,1,2], so that no draw call of a
\* later frame covers geometry of this one.
C16_BatchesDoNotPersist ==
    [][/\ last_call'.op = "render" =>
            /\ last_call'.draw_calls[1].start = 0
            /\ last_call'.draw_calls[1].end = Len(index_data)
            /\ last_call'.draw_calls[1].num_vertices = Len(vertex_data)
            /\ \A i \in 1..Len(vertex_data) :
                  vertex_buffer'.data[i] = <<vertex_data[i]>>
            /\ \A i \in 1..Len(index_data) :
                  index_buffer'.data[i] = <<index_data[i]>>
            /\ vertex_data' = <<>>
            /\ index_data' = <<>>
       /\ (IsDraw(last_call'.op) /\ FrameStart) =>
            /\ Len(vertex_data') = 4 * Len(last_call'.text)
            /\ Len(index_data') = 6 * Len(last_call'.text)
            /\ SubSeq(index_data', 1, 6) = <<0, 1, 3, 3, 1, 2>>]_vars

\* the first draw call of a frame that follows a frame of two quads
C16_Witness ==
    /\ IsDraw(last_call.op)
    /\ index_data = <<0, 1, 3, 3, 1, 2>>
    /\ Len(vertex_data) = 4
    /\ vertex_buffer.len >= 8
    /\ vertex_buffer.data[8] # Uninit

\* C17: in every state the batch is well formed: for one k it has 4k vertices
\* and 6k indices, and every index is below the number of vertices.
C17_BatchWellFormed ==
    /\ \E k \in 0..Len(vertex_data) :
          /\ Len(vertex_data) = 4 * k
          /\ Len(index_data) = 6 * k
    /\ \A i \in 1..Len(index_data) :
          /\ index_data[i] >= 0
          /\ index_data[i] < Len(vertex_data)

\* a batch of two quads built across an update, after an earlier render
C17_Witness ==
    /\ last_call.op = "update"
    /\ Len(vertex_data) = 8
    /\ Len(index_data) = 12
    /\ index_data[12] = 6
    /\ params.u_model_view_proj = MAT4_CAM

\* C18: whenever render has issued its draw call, the drawn index range and
\* the mesh's vertex count lie within the buffers (which render leaves as
\* they were): end <= index buffer capacity and vertex count <= vertex
\* buffer capacity.
C18_RenderDrawsWithinBuffers ==
    last_call.op = "render" =>
        /\ last_call.draw_calls[1].end <= index_buffer.len
        /\ last_call.draw_calls[1].num_vertices <= vertex_buffer.len

\* C19: update() leaves the batch and the uniforms as they are, and an
\* update() that directly follows an update() grows nothing and leaves the
\* buffers' handles, capacities and contents as the first one left them.
C19_UpdateIdempotent ==
    [][last_call'.op = "update" =>
        /\ vertex_data' = vertex_data
        /\ index_data' = index_data
        /\ params' = params
        /\ last_call.op = "update" =>
              /\ last_call'.vertex_grown = NoGrowth
              /\ last_call'.index_grown = NoGrowth
              /\ factory' = factory
              /\ vertex_buffer' = vertex_buffer
              /\ index_buffer' = index_buffer]_vars

\* an update() without growth of a batch of two quads whose buffers an
\* earlier update() of the same batch has grown to the exact fit
C19_Witness ==
    /\ last_call.op = "update"
    /\ last_call.vertex_grown = NoGrowth
    /\ last_call.index_grown = NoGrowth
    /\ Len(vertex_data) = 8
    /\ vertex_buffer.handle = 3
    /\ vertex_buffer.len = 8
    /\ index_buffer.handle = 4
    /\ index_buffer.len = 12
    /\ vertex_buffer.data[8] = <<vertex_data[8]>>

====
